---- MODULE Spec2Model ----
(***************************************************************************)
(* Model of the faiss index lifecycle of LocalVectorStore                  *)
(* (src/src/tools/vector_store.py): lazy load, lock-guarded reload, the    *)
(* background checkpoint task, the registry of live checkpoints, the       *)
(* SIGTERM/SIGINT handler and the atexit hooks.                            *)
(*                                                                         *)
(* Executors: "main" (the main thread), "w1" (a worker thread) and "sig"   *)
(* (the signal handler, which runs on the main thread's stack: while it is *)
(* active the main thread makes no step).  Every checkpoint object owns a  *)
(* daemon thread whose position is ck[i].tpc.                              *)
(***************************************************************************)
EXTENDS Integers, Sequences, FiniteSets, TLC

\* ---------------------------------------------------------------- bounds
MaxArt == 2      \* artifacts ever built (the initial one and the rebuilds)
MaxLoads == 2    \* index handles ever read (first load and reloads)

\* ------------------------------------------------------------- constants
NoFile == 0      \* no artifact at the path / key
Torn == -1       \* a file some writer is part-way through, or left garbled

Workers == {"main", "w1"}
Execs == {"main", "w1", "sig"}

VARIABLES
    env,                    \* what the environment does in this run
    s3,                     \* _faiss_s3_client is configured
    localFile,              \* the file at _faiss_local_path
    remoteObj,              \* the object at (bucket, key)
    corpusFile,             \* generation of index.jsonl on disk
    nart,                   \* artifacts built so far
    rebuilding,             \* the build pipeline is writing faiss.index
    records,                \* self._records (generation, NoFile = None)
    handles,                \* artifact of every index handle ever read
    faiss_index,            \* self._faiss_index (handle id, 0 = None)
    faiss_lock,             \* self._faiss_lock (RLock: owner and depth)
    faiss_checkpoint,       \* self._faiss_checkpoint (id, 0 = None)
    ck,                     \* the _FaissCheckpoint objects ever created
    FAISS_CHECKPOINTS,      \* registry of live checkpoints
    FAISS_SIGNAL_LOCK,      \* holder of _FAISS_SIGNAL_LOCK
    FAISS_SIGNAL_INSTALLED, \* _FAISS_SIGNAL_INSTALLED
    handlerSet,             \* signal.signal(...) took effect
    atexitList,             \* atexit.register(self.stop), in order
    thr,                    \* the executors' frames
    hist                    \* history of loads and uploads (observation only)

\* State of the request path and of the pure functions, which the faiss
\* lifecycle leaves alone
VARIABLES
    agent,                  \* the shared RetrievalAgent: top_k and model
    rr                      \* the run_retrieval calls in flight, per caller

VARIABLE lad                \* one RetrievalAgent.run / _llm_answer call

VARIABLE mm                 \* one RetrievalAgent._mmr call
VARIABLE vs                 \* a LocalVectorStore from __init__ to one search

runVars == <<agent, rr>>
ladderVars == <<lad>>
backendVars == <<vs>>
mmrVars == <<mm>>
sideVars == <<runVars, ladderVars, backendVars, mmrVars>>

vars == <<env, s3, localFile, remoteObj, corpusFile, nart, rebuilding, records,
          handles, faiss_index, faiss_lock, faiss_checkpoint, ck,
          FAISS_CHECKPOINTS, FAISS_SIGNAL_LOCK, FAISS_SIGNAL_INSTALLED,
          handlerSet, atexitList, thr, hist, sideVars>>

fileVars == <<localFile, remoteObj, corpusFile, nart, rebuilding>>
storeVars == <<records, handles, faiss_index, faiss_checkpoint>>
regVars == <<FAISS_CHECKPOINTS, FAISS_SIGNAL_LOCK, FAISS_SIGNAL_INSTALLED,
             handlerSet, atexitList>>
faissVars == <<env, s3, fileVars, storeVars, faiss_lock, ck, regVars, thr, hist>>

\* --------------------------------------------------------------- helpers
FreeLock == [owner |-> "none", n |-> 0]

\* An executor's frame: the call it runs (op), its position (pc), the
\* checkpoint stop() was called on (c), and what the call has observed
Frame0 == [op |-> "none", pc |-> "idle", c |-> 0, seen |-> 0, res |-> 0,
           out |-> "none", old |-> 0, want |-> 0, fl |-> 0, upok |-> TRUE,
           first |-> FALSE, during |-> FALSE, todo |-> <<>>]

RECURSIVE Reverse(_)
Reverse(s) == IF s = <<>> THEN <<>> ELSE Append(Reverse(Tail(s)), Head(s))

RECURSIVE Remove(_, _)
Remove(s, x) ==
    IF s = <<>> THEN <<>>
    ELSE IF Head(s) = x THEN Tail(s) ELSE <<Head(s)>> \o Remove(Tail(s), x)

InSeq(s, x) == \E k \in 1..Len(s) : s[k] = x

Exited == thr["main"].pc = "exited"
SigActive == thr["sig"].pc \notin {"off", "raised"}
Exiting == thr["main"].op \in {"atexit", "unwind"}

\* An executor can take a step: the process lives, and the main thread is
\* suspended for as long as the signal handler runs on its stack.
Runs(e) ==
    /\ ~Exited
    /\ e = "main" => ~SigActive
    /\ e = "sig" => SigActive

\* variant for comparison: the lock excludes nobody
CanAcquireAlways(t) == TRUE

\* threading.RLock.acquire: free, or already owned by the caller.
CanAcquire(t) == faiss_lock.owner \in {"none", t}
Acquired(t) == [owner |-> t, n |-> IF faiss_lock.owner = t THEN faiss_lock.n + 1 ELSE 1]

\* open(path, "wb") by faiss.write_index: the file is torn while written.
BeginWrite(f) == [c |-> Torn, w |-> f.w + 1, mixed |-> f.mixed \/ f.w > 0]
EndWrite(f, art) ==
    IF f.w = 1 THEN [c |-> IF f.mixed THEN Torn ELSE art, w |-> 0, mixed |-> FALSE]
    ELSE [c |-> Torn, w |-> f.w - 1, mixed |-> TRUE]
\* a writer that is killed part-way leaves the file torn
AbortWrite(f) == [c |-> Torn, w |-> f.w - 1, mixed |-> IF f.w = 1 THEN FALSE ELSE TRUE]

\* variant for comparison: read_index accepts whatever is at the path
ReadableAlways(f) == TRUE

\* faiss.read_index succeeds on a complete artifact only
Readable(f) == f.c \in 1..MaxArt

\* The runs explored: whether remote checkpoints are configured, which
\* threads issue calls (and which of them call reload), whether the build
\* pipeline rewrites the artifact, whether a checkpoint interval elapses, and
\* whether the process is signalled or exits.
Scenarios ==
    { [s3 |-> FALSE, threads |-> {"main", "w1"}, reloaders |-> {"main", "w1"},
       rebuild |-> TRUE, ticks |-> FALSE, stops |-> FALSE],
      [s3 |-> TRUE, threads |-> {"main", "w1"}, reloaders |-> {"main", "w1"},
       rebuild |-> FALSE, ticks |-> FALSE, stops |-> FALSE],
      [s3 |-> TRUE, threads |-> {"main"}, reloaders |-> {"main"},
       rebuild |-> TRUE, ticks |-> TRUE, stops |-> FALSE],
      [s3 |-> TRUE, threads |-> {"main"}, reloaders |-> {"main"},
       rebuild |-> FALSE, ticks |-> TRUE, stops |-> TRUE],
      [s3 |-> TRUE, threads |-> {"main", "w1"}, reloaders |-> {"w1"},
       rebuild |-> FALSE, ticks |-> FALSE, stops |-> TRUE] }

\* ------------------------------------------ run_retrieval (rag.py 75-88)
ConfiguredTopK == 4                 \* RetrievalAgent(top_k=4)
ConfiguredModel == "gpt-4o-mini"    \* model or CHAT_MODEL or "gpt-4o-mini"
Callers == {"q1", "q2"}

\* get_retrieval_agent(): the one cached RetrievalAgent()
NewAgent == [top_k |-> ConfiguredTopK, model |-> ConfiguredModel]
NoCall == [pc |-> "idle", top_k |-> [given |-> FALSE, v |-> 0], model |-> "",
           original_top_k |-> 0, original_model |-> ""]
RunInit == agent = NewAgent /\ rr = [c \in Callers |-> NoCall]

\* no _llm_answer call
NoLadder == [pc |-> "off", docs |-> <<>>, is_v5 |-> FALSE, calls |-> <<>>,
             answer |-> <<>>, via |-> "none", hits |-> <<>>, sources |-> <<>>]
LadderUnused == lad = NoLadder

\* no store under construction
NoStore == [pc |-> "off", backend |-> "json", dep |-> TRUE, s3cfg |-> "none",
            boto3 |-> TRUE, file |-> [exists |-> FALSE, lines |-> <<>>],
            records |-> <<>>, top_k |-> 0, include_text |-> FALSE,
            include_embedding |-> FALSE, query_vec |-> <<>>, mismatch |-> FALSE,
            out |-> "none", hits |-> <<>>, run_hits |-> <<>>]
BackendUnused == vs = NoStore

\* no _mmr call
NoMmr == [pc |-> "off", cands |-> <<>>, k |-> 0, q_vec |-> <<>>, remaining |-> <<>>,
          selected |-> <<>>, last |-> <<>>, result |-> <<>>]
MmrUnused == mm = NoMmr

Init ==
    /\ RunInit /\ LadderUnused /\ BackendUnused /\ MmrUnused
    /\ env \in Scenarios
    /\ s3 = env.s3
    /\ \E present \in BOOLEAN :
          /\ localFile = [c |-> IF ~s3 /\ present THEN 1 ELSE NoFile, w |-> 0, mixed |-> FALSE]
          /\ remoteObj = IF s3 /\ present THEN 1 ELSE NoFile
    /\ corpusFile = 1
    /\ nart = 1
    /\ rebuilding = FALSE
    /\ records = NoFile
    /\ handles = <<>>
    /\ faiss_index = 0
    /\ faiss_lock = FreeLock
    /\ faiss_checkpoint = 0
    /\ ck = <<>>
    /\ FAISS_CHECKPOINTS = <<>>
    /\ FAISS_SIGNAL_LOCK = "none"
    /\ FAISS_SIGNAL_INSTALLED = FALSE
    /\ handlerSet = FALSE
    /\ atexitList = <<>>
    /\ thr = [e \in Execs |-> IF e = "sig" THEN [Frame0 EXCEPT !.pc = "off"] ELSE Frame0]
    /\ hist = [epochLoads |-> 0, epochCkpts |-> 0, lastUp |-> 0, maxUp |-> 0, floor |-> 0]


\* ------------------------------------------------ search (lines 134-261)
CanStart(t) == /\ Runs(t) /\ thr[t].pc = "idle" /\ ~Exiting /\ t \in env.threads

\* search(): _ensure_records() and embed_text(), then dispatch to _faiss_search
SearchBegin(t) ==
    /\ CanStart(t)
    /\ records' = IF records = NoFile THEN corpusFile ELSE records
    /\ thr' = [thr EXCEPT ![t] = [Frame0 EXCEPT
                 !.op = "search", !.pc = "s_lock", !.want = hist.floor,
                 !.first = (faiss_index = 0),
                 !.during = (\E u \in Workers \ {t} : thr[u].op = "reload")]]
    /\ UNCHANGED <<sideVars, env, s3, fileVars, handles, faiss_index, faiss_lock, faiss_checkpoint,
                   ck, regVars, hist>>

\* variant for comparison: the loaded index is not recognised and is read again
EnsureLoadedNever == FALSE

\* _ensure_faiss_index: `if self._faiss_index is not None: return`
EnsureLoaded == faiss_index # 0

\* _faiss_search: with self._faiss_lock: self._ensure_faiss_index(), which
\* returns when the index is loaded and else takes the lock again (reentrant)
SearchLock(t) ==
    /\ Runs(t) /\ thr[t].pc = "s_lock"
    /\ CanAcquire(t)
    /\ IF EnsureLoaded
       THEN /\ thr' = [thr EXCEPT ![t].pc = "s_query", ![t].seen = faiss_index]
            /\ faiss_lock' = Acquired(t)
       ELSE /\ Len(handles) < MaxLoads
            /\ faiss_lock' = [owner |-> t, n |-> Acquired(t).n + 1]
            /\ thr' = [thr EXCEPT ![t].pc = "l_dl"]
    /\ UNCHANGED <<sideVars, env, s3, fileVars, storeVars, ck, regVars, hist>>

\* an exception leaves every `with self._faiss_lock` block of the thread
Raise(t) ==
    /\ faiss_lock' = FreeLock
    /\ thr' = [thr EXCEPT ![t].pc = "ret", ![t].out = "err"]

\* _download_faiss_index
Download(t) ==
    /\ Runs(t) /\ thr[t].pc = "l_dl"
    /\ IF s3
       THEN \/ /\ remoteObj # NoFile
               /\ localFile' = [localFile EXCEPT
                                  !.c = IF localFile.w > 0 THEN Torn ELSE remoteObj,
                                  !.mixed = localFile.w > 0]
               /\ thr' = [thr EXCEPT ![t].pc = "l_read"]
               /\ UNCHANGED faiss_lock
            \/ /\ Raise(t)              \* download_file raised
               /\ UNCHANGED localFile
       ELSE /\ UNCHANGED localFile
            /\ IF localFile.c = NoFile
               THEN Raise(t)
               ELSE /\ thr' = [thr EXCEPT ![t].pc = "l_read"]
                    /\ UNCHANGED faiss_lock
    /\ UNCHANGED <<sideVars, env, s3, remoteObj, corpusFile, nart, rebuilding, storeVars, ck, regVars, hist>>

\* faiss.read_index(...) and `self._faiss_index = index`
ReadIndex(t) ==
    /\ Runs(t) /\ thr[t].pc = "l_read"
    /\ IF Readable(localFile)
       THEN /\ handles' = Append(handles, localFile.c)
            /\ faiss_index' = Len(handles) + 1
            /\ thr' = [thr EXCEPT ![t].pc = "l_ck"]
            /\ hist' = [hist EXCEPT !.epochLoads = @ + 1]
            /\ UNCHANGED faiss_lock
       ELSE /\ Raise(t)
            /\ UNCHANGED <<handles, faiss_index, hist>>
    /\ UNCHANGED <<sideVars, env, s3, fileVars, records, faiss_checkpoint, ck, regVars>>

\* what a finished load returns to: reload() returns, _faiss_search goes on
\* under its own `with self._faiss_lock`
LoadedFrame(t) ==
    IF thr[t].op = "reload"
    THEN [thr[t] EXCEPT !.pc = "ret", !.out = "ok", !.res = faiss_index]
    ELSE [thr[t] EXCEPT !.pc = "s_query", !.seen = faiss_index]
LoadedLock(t) == IF thr[t].op = "reload" THEN FreeLock ELSE [owner |-> t, n |-> 1]

\* `if self._faiss_s3_client and self._faiss_checkpoint is None` (ensure),
\* `if self._faiss_s3_client` (reload)
WantsCheckpoint(t) == s3 /\ (thr[t].op = "reload" \/ faiss_checkpoint = 0)

NewCheckpoint == [h |-> faiss_index, art |-> handles[faiss_index], stop |-> FALSE,
                  tpc |-> "new", lock |-> "none", failed |-> FALSE, done |-> FALSE]

\* the end of the load: _FaissCheckpoint(...) is constructed, or not
MaybeCheckpoint(t) ==
    /\ Runs(t) /\ thr[t].pc = "l_ck"
    /\ IF WantsCheckpoint(t)
       THEN /\ ck' = Append(ck, NewCheckpoint)
            /\ thr' = [thr EXCEPT ![t].pc = "k_reg", ![t].c = Len(ck) + 1]
            /\ UNCHANGED faiss_lock
       ELSE /\ thr' = [thr EXCEPT ![t] = LoadedFrame(t)]
            /\ faiss_lock' = LoadedLock(t)
            /\ UNCHANGED ck
    /\ UNCHANGED <<sideVars, env, s3, fileVars, storeVars, regVars, hist>>

\* _register_faiss_checkpoint: with _FAISS_SIGNAL_LOCK: append
RegisterAcquire(e) ==
    /\ Runs(e) /\ thr[e].pc = "k_reg"
    /\ FAISS_SIGNAL_LOCK = "none"
    /\ FAISS_SIGNAL_LOCK' = e
    /\ FAISS_CHECKPOINTS' = IF InSeq(FAISS_CHECKPOINTS, thr[e].c) THEN FAISS_CHECKPOINTS
                            ELSE Append(FAISS_CHECKPOINTS, thr[e].c)
    /\ thr' = [thr EXCEPT ![e].pc = IF FAISS_SIGNAL_INSTALLED THEN "k_rel" ELSE "k_inst"]
    /\ UNCHANGED <<sideVars, env, s3, fileVars, storeVars, faiss_lock, ck, FAISS_SIGNAL_INSTALLED,
                   handlerSet, atexitList, hist>>

\* signal.signal(sig, _handler): takes effect on the main thread only
\* (ValueError elsewhere, which is swallowed)
RegisterInstall(e) ==
    /\ Runs(e) /\ thr[e].pc = "k_inst"
    /\ handlerSet' = (handlerSet \/ e = "main")
    /\ thr' = [thr EXCEPT ![e].pc = "k_flag"]
    /\ UNCHANGED <<sideVars, env, s3, fileVars, storeVars, faiss_lock, ck, FAISS_CHECKPOINTS,
                   FAISS_SIGNAL_LOCK, FAISS_SIGNAL_INSTALLED, atexitList, hist>>

\* the end of `with _FAISS_SIGNAL_LOCK` in _register_faiss_checkpoint
RegisterRelease(e) ==
    /\ Runs(e) /\ thr[e].pc \in {"k_rel", "k_flag"}
    /\ FAISS_SIGNAL_INSTALLED' = (FAISS_SIGNAL_INSTALLED \/ thr[e].pc = "k_flag")
    /\ FAISS_SIGNAL_LOCK' = "none"
    /\ thr' = [thr EXCEPT ![e].pc = "k_start"]
    /\ UNCHANGED <<sideVars, env, s3, fileVars, storeVars, faiss_lock, ck, FAISS_CHECKPOINTS,
                   handlerSet, atexitList, hist>>

\* atexit.register(self.stop); self._thread.start(); and the assignment of
\* the new object to self._faiss_checkpoint
CheckpointStart(t) ==
    /\ Runs(t) /\ thr[t].pc = "k_start"
    /\ atexitList' = Append(atexitList, thr[t].c)
    /\ ck' = [ck EXCEPT ![thr[t].c].tpc = "wait"]
    /\ faiss_checkpoint' = thr[t].c
    /\ thr' = [thr EXCEPT ![t] = LoadedFrame(t)]
    /\ faiss_lock' = LoadedLock(t)
    /\ hist' = [hist EXCEPT !.epochCkpts = @ + 1]
    /\ UNCHANGED <<sideVars, env, s3, fileVars, records, handles, faiss_index, FAISS_CHECKPOINTS,
                   FAISS_SIGNAL_LOCK, FAISS_SIGNAL_INSTALLED, handlerSet>>

\* lines 239-261: the None check, self._faiss_index.search(...) under the
\* lock, and the hits built from self._records
Query(t) ==
    /\ Runs(t) /\ thr[t].pc = "s_query"
    /\ faiss_lock' = FreeLock
    /\ IF faiss_index = 0
       THEN thr' = [thr EXCEPT ![t].pc = "ret", ![t].out = "missing"]
       ELSE thr' = [thr EXCEPT ![t].pc = "ret", ![t].out = "ok", ![t].res = faiss_index]
    /\ UNCHANGED <<sideVars, env, s3, fileVars, storeVars, ck, regVars, hist>>

\* search() or reload() returns (or raises) to its caller
Return(t) ==
    /\ Runs(t) /\ thr[t].pc = "ret"
    /\ thr' = [thr EXCEPT ![t] = Frame0]
    /\ hist' = IF /\ thr[t].op = "reload" /\ thr[t].out = "ok"
                  /\ thr[t].old # 0 /\ thr[t].want > hist.floor
               THEN [hist EXCEPT !.floor = thr[t].want] ELSE hist
    /\ UNCHANGED <<sideVars, env, s3, fileVars, storeVars, faiss_lock, ck, regVars>>

\* ------------------------------------------------ reload (lines 451-472)
ReloadBegin(t) ==
    /\ CanStart(t) /\ t \in env.reloaders
    /\ Len(handles) < MaxLoads
    /\ thr' = [thr EXCEPT ![t] = [Frame0 EXCEPT !.op = "reload", !.pc = "r_lock",
                                                !.want = nart]]
    /\ UNCHANGED <<sideVars, env, s3, fileVars, storeVars, faiss_lock, ck, regVars, hist>>

\* with self._faiss_lock: if self._faiss_checkpoint: self._faiss_checkpoint.stop()
ReloadLock(t) ==
    /\ Runs(t) /\ thr[t].pc = "r_lock"
    /\ CanAcquire(t)
    /\ faiss_lock' = Acquired(t)
    /\ thr' = [thr EXCEPT ![t].old = faiss_index,
                          ![t].c = faiss_checkpoint,
                          ![t].pc = IF faiss_checkpoint # 0 THEN "st_check" ELSE "r_none"]
    /\ UNCHANGED <<sideVars, env, s3, fileVars, storeVars, ck, regVars, hist>>

\* self._faiss_checkpoint = None; self._faiss_index = None
ReloadClear(t) ==
    /\ Runs(t) /\ thr[t].pc = "r_none"
    /\ faiss_checkpoint' = 0
    /\ faiss_index' = 0
    /\ hist' = [hist EXCEPT !.epochLoads = 0, !.epochCkpts = 0]
    /\ thr' = [thr EXCEPT ![t].pc = "l_dl"]
    /\ UNCHANGED <<sideVars, env, s3, fileVars, records, handles, faiss_lock, ck, regVars>>


\* ------------------------------------ _FaissCheckpoint.stop (lines 576-587)
\* where stop() returns to: reload(), the handler's loop, the atexit run
Ret(e) == CASE thr[e].op = "reload" -> "r_none"
            [] thr[e].op = "handler" -> "h_loop"
            [] thr[e].op = "unwind" -> "a_wait"
            [] OTHER -> "a_loop"

\* variant for comparison: stop() does not look at the event
StopIsSetNever(c) == FALSE

\* `if self._stop.is_set(): return`
StopIsSet(c) == ck[c].stop

StopCheck(e) ==
    /\ Runs(e) /\ thr[e].pc = "st_check"
    /\ thr' = [thr EXCEPT ![e].pc = IF StopIsSet(thr[e].c) THEN Ret(e) ELSE "st_set",
                          ![e].fl = 0]
    /\ UNCHANGED <<sideVars, env, s3, fileVars, storeVars, faiss_lock, ck, regVars, hist>>

\* self._stop.set()
StopSet(e) ==
    /\ Runs(e) /\ thr[e].pc = "st_set"
    /\ ck' = [ck EXCEPT ![thr[e].c].stop = TRUE]
    /\ thr' = [thr EXCEPT ![e].pc = "st_join"]
    /\ UNCHANGED <<sideVars, env, s3, fileVars, storeVars, faiss_lock, regVars, hist>>

\* self._thread.join(timeout=10): returns when the thread has ended, or when
\* the timeout has passed with the thread still alive (late)
StopJoin(e) ==
    /\ Runs(e) /\ thr[e].pc = "st_join"
    /\ thr' = [thr EXCEPT ![e].pc = "st_lock"]
    /\ UNCHANGED <<sideVars, env, s3, fileVars, storeVars, faiss_lock, ck, regVars, hist>>

\* _upload: with self._lock: ... faiss.write_index opens the local file
StopLock(e) ==
    /\ Runs(e) /\ thr[e].pc = "st_lock"
    /\ ck[thr[e].c].lock = "none"
    /\ ck' = [ck EXCEPT ![thr[e].c].lock = e]
    /\ localFile' = BeginWrite(localFile)
    /\ thr' = [thr EXCEPT ![e].pc = "st_write"]
    /\ UNCHANGED <<sideVars, env, s3, remoteObj, corpusFile, nart, rebuilding, storeVars, faiss_lock,
                   regVars, hist>>

\* faiss.write_index(self.index, local_path) completes
StopWrite(e) ==
    /\ Runs(e) /\ thr[e].pc = "st_write"
    /\ localFile' = EndWrite(localFile, ck[thr[e].c].art)
    /\ thr' = [thr EXCEPT ![e].pc = "st_upload"]
    /\ UNCHANGED <<sideVars, env, s3, remoteObj, corpusFile, nart, rebuilding, storeVars, faiss_lock,
                   ck, regVars, hist>>

\* s3_client.upload_file(local_path, bucket, key): the object becomes what
\* the local file holds at that moment
Uploaded(c) == localFile.c
UploadHist(c) == [hist EXCEPT !.lastUp = c, !.maxUp = IF c > @ THEN c ELSE @]

\* variant for comparison: a failed final upload propagates out of stop()
StopAfterUploadRaises(e, ok) == IF ok THEN "st_unreg" ELSE Ret(e)

\* stop(): try: self._upload() / except Exception: print / finally: unregister
StopAfterUpload(e, ok) == "st_unreg"

\* the final upload succeeds or raises
StopUpload(e) ==
    /\ Runs(e) /\ thr[e].pc = "st_upload"
    /\ \E ok \in BOOLEAN :
          /\ remoteObj' = IF ok THEN Uploaded(thr[e].c) ELSE remoteObj
          /\ hist' = IF ok THEN UploadHist(thr[e].c) ELSE hist
          /\ thr' = [thr EXCEPT ![e].pc = StopAfterUpload(e, ok), ![e].fl = @ + 1,
                                ![e].upok = ok]
    /\ ck' = [ck EXCEPT ![thr[e].c].lock = "none"]
    /\ UNCHANGED <<sideVars, env, s3, localFile, corpusFile, nart, rebuilding, storeVars, faiss_lock,
                   regVars>>

\* _unregister_faiss_checkpoint: with _FAISS_SIGNAL_LOCK: remove
StopUnregister(e) ==
    /\ Runs(e) /\ thr[e].pc = "st_unreg"
    /\ FAISS_SIGNAL_LOCK = "none"
    /\ FAISS_SIGNAL_LOCK' = e
    /\ FAISS_CHECKPOINTS' = Remove(FAISS_CHECKPOINTS, thr[e].c)
    /\ thr' = [thr EXCEPT ![e].pc = "st_unreg2"]
    /\ UNCHANGED <<sideVars, env, s3, fileVars, storeVars, faiss_lock, ck, FAISS_SIGNAL_INSTALLED,
                   handlerSet, atexitList, hist>>

\* the lock is released and stop() returns
StopReturn(e) ==
    /\ Runs(e) /\ thr[e].pc = "st_unreg2"
    /\ FAISS_SIGNAL_LOCK' = "none"
    /\ ck' = [ck EXCEPT ![thr[e].c].done = TRUE]
    /\ thr' = [thr EXCEPT ![e].pc = Ret(e)]
    /\ UNCHANGED <<sideVars, env, s3, fileVars, storeVars, faiss_lock, FAISS_CHECKPOINTS,
                   FAISS_SIGNAL_INSTALLED, handlerSet, atexitList, hist>>

\* ----------------------------------- _FaissCheckpoint._loop (lines 569-574)
Cks == 1..Len(ck)

\* self._stop.wait(self.interval) timed out: the interval has passed
CkTick(i) ==
    /\ env.ticks /\ ~Exited /\ ck[i].tpc = "wait" /\ ~ck[i].stop
    /\ ck' = [ck EXCEPT ![i].tpc = "pre"]
    /\ UNCHANGED <<sideVars, env, s3, fileVars, storeVars, faiss_lock, regVars, thr, hist>>

\* self._stop.wait(...) returned True: the loop ends
CkExit(i) ==
    /\ ~Exited /\ ck[i].tpc = "wait" /\ ck[i].stop
    /\ ck' = [ck EXCEPT ![i].tpc = "dead"]
    /\ UNCHANGED <<sideVars, env, s3, fileVars, storeVars, faiss_lock, regVars, thr, hist>>

\* _upload on the checkpoint thread: with self._lock, write_index opens the file
CkLock(i) ==
    /\ ~Exited /\ ck[i].tpc = "pre" /\ ck[i].lock = "none"
    /\ ck' = [ck EXCEPT ![i].tpc = "write", ![i].lock = "ck", ![i].failed = FALSE]
    /\ localFile' = BeginWrite(localFile)
    /\ UNCHANGED <<sideVars, env, s3, remoteObj, corpusFile, nart, rebuilding, storeVars, faiss_lock,
                   regVars, thr, hist>>

CkWrite(i) ==
    /\ ~Exited /\ ck[i].tpc = "write"
    /\ ck' = [ck EXCEPT ![i].tpc = "upl"]
    /\ localFile' = EndWrite(localFile, ck[i].art)
    /\ UNCHANGED <<sideVars, env, s3, remoteObj, corpusFile, nart, rebuilding, storeVars, faiss_lock,
                   regVars, thr, hist>>

\* variant for comparison: a failed upload ends the loop
LoopAfterUploadDies(ok) == IF ok THEN "wait" ELSE "dead"

\* _loop: try: self._upload() / except Exception: print, and the loop goes on
LoopAfterUpload(ok) == "wait"

CkUpload(i) ==
    /\ ~Exited /\ ck[i].tpc = "upl"
    /\ \E ok \in BOOLEAN :
          /\ remoteObj' = IF ok THEN Uploaded(i) ELSE remoteObj
          /\ hist' = IF ok THEN UploadHist(i) ELSE hist
          /\ ck' = [ck EXCEPT ![i].tpc = LoopAfterUpload(ok), ![i].lock = "none",
                              ![i].failed = ~ok]
    /\ UNCHANGED <<sideVars, env, s3, localFile, corpusFile, nart, rebuilding, storeVars, faiss_lock,
                   regVars, thr>>

\* --------------------- the build pipeline (build_index.py, lines 105-157)
\* index.jsonl is written, then faiss.write_index opens faiss.index
RebuildBegin ==
    /\ env.rebuild /\ ~Exited /\ ~rebuilding /\ nart < MaxArt
    /\ rebuilding' = TRUE
    /\ corpusFile' = nart + 1
    /\ localFile' = BeginWrite(localFile)
    /\ UNCHANGED <<sideVars, env, s3, remoteObj, nart, storeVars, faiss_lock, ck, regVars, thr, hist>>

RebuildEnd ==
    /\ ~Exited /\ rebuilding
    /\ rebuilding' = FALSE
    /\ nart' = nart + 1
    /\ localFile' = EndWrite(localFile, nart + 1)
    /\ UNCHANGED <<sideVars, env, s3, remoteObj, corpusFile, storeVars, faiss_lock, ck, regVars, thr, hist>>

\* ------------------------------- the signal handler (lines 613-619), exit
\* SIGTERM/SIGINT arrives: _handler starts on the main thread's stack
Signal ==
    /\ env.stops /\ ~Exited /\ ~Exiting /\ handlerSet /\ thr["sig"].pc = "off"
    /\ thr' = [thr EXCEPT !["sig"] = [Frame0 EXCEPT !.op = "handler", !.pc = "h_loop",
                                                    !.todo = FAISS_CHECKPOINTS]]
    /\ UNCHANGED <<sideVars, env, s3, fileVars, storeVars, faiss_lock, ck, regVars, hist>>

\* for chk in list(_FAISS_CHECKPOINTS): chk.stop()
HandlerNext ==
    /\ Runs("sig") /\ thr["sig"].pc = "h_loop" /\ thr["sig"].todo # <<>>
    /\ thr' = [thr EXCEPT !["sig"].c = Head(thr["sig"].todo),
                          !["sig"].todo = Tail(thr["sig"].todo),
                          !["sig"].pc = "st_check"]
    /\ UNCHANGED <<sideVars, env, s3, fileVars, storeVars, faiss_lock, ck, regVars, hist>>

\* the main thread's frames that are inside stop()'s try block
InTry(pc) == pc \in {"st_lock", "st_write", "st_upload"}

\* raise SystemExit(0): the interrupted main thread unwinds. Its `with`
\* blocks release what they hold; a stop() interrupted inside its try block
\* still runs its finally clause (the unregister); then the atexit hooks run.
HandlerExit ==
    /\ Runs("sig") /\ thr["sig"].pc = "h_loop" /\ thr["sig"].todo = <<>>
    /\ LET m == thr["main"] IN
       /\ faiss_lock' = IF faiss_lock.owner = "main" THEN FreeLock ELSE faiss_lock
       /\ FAISS_SIGNAL_LOCK' = IF FAISS_SIGNAL_LOCK = "main" THEN "none" ELSE FAISS_SIGNAL_LOCK
       /\ ck' = [i \in 1..Len(ck) |->
                    IF ck[i].lock = "main" THEN [ck[i] EXCEPT !.lock = "none"] ELSE ck[i]]
       /\ localFile' = IF m.pc = "st_write" THEN AbortWrite(localFile) ELSE localFile
       /\ thr' = [thr EXCEPT !["sig"].pc = "raised",
                             !["main"] = IF InTry(m.pc)
                                         THEN [Frame0 EXCEPT !.op = "unwind", !.c = m.c,
                                                             !.pc = "st_unreg"]
                                         ELSE [Frame0 EXCEPT !.op = "atexit", !.pc = "a_wait"]]
    /\ UNCHANGED <<sideVars, env, s3, remoteObj, corpusFile, nart, rebuilding, storeVars,
                   FAISS_CHECKPOINTS, FAISS_SIGNAL_INSTALLED, handlerSet, atexitList, hist>>

\* the main thread ends normally: interpreter shutdown starts
Exit ==
    /\ env.stops /\ CanStart("main")
    /\ thr' = [thr EXCEPT !["main"] = [Frame0 EXCEPT !.op = "atexit", !.pc = "a_wait"]]
    /\ UNCHANGED <<sideVars, env, s3, fileVars, storeVars, faiss_lock, ck, regVars, hist>>

\* threading._shutdown() has joined the other threads: the atexit hooks
\* (one stop per checkpoint ever created) run last-registered first
AtexitBegin ==
    /\ Runs("main") /\ thr["main"].pc \in {"a_wait"}
    /\ thr["w1"].pc = "idle"
    /\ thr' = [thr EXCEPT !["main"] = [Frame0 EXCEPT !.op = "atexit", !.pc = "a_loop",
                                                     !.todo = Reverse(atexitList)]]
    /\ UNCHANGED <<sideVars, env, s3, fileVars, storeVars, faiss_lock, ck, regVars, hist>>

AtexitNext ==
    /\ Runs("main") /\ thr["main"].pc = "a_loop"
    /\ IF thr["main"].todo = <<>>
       THEN thr' = [thr EXCEPT !["main"].pc = "exited"]
       ELSE thr' = [thr EXCEPT !["main"].c = Head(thr["main"].todo),
                               !["main"].todo = Tail(thr["main"].todo),
                               !["main"].pc = "st_check"]
    /\ UNCHANGED <<sideVars, env, s3, fileVars, storeVars, faiss_lock, ck, regVars, hist>>

\* ------------------------------------------------------------------ Next
Next ==
    \/ \E t \in Workers : SearchBegin(t)
    \/ \E t \in Workers : SearchLock(t)
    \/ \E t \in Workers : Download(t)
    \/ \E t \in Workers : ReadIndex(t)
    \/ \E t \in Workers : MaybeCheckpoint(t)
    \/ \E t \in Workers : RegisterAcquire(t)
    \/ \E t \in Workers : RegisterInstall(t)
    \/ \E t \in Workers : RegisterRelease(t)
    \/ \E t \in Workers : CheckpointStart(t)
    \/ \E t \in Workers : Query(t)
    \/ \E t \in Workers : Return(t)
    \/ \E t \in Workers : ReloadBegin(t)
    \/ \E t \in Workers : ReloadLock(t)
    \/ \E t \in Workers : ReloadClear(t)
    \/ \E e \in Execs : StopCheck(e)
    \/ \E e \in Execs : StopSet(e)
    \/ \E e \in Execs : StopJoin(e)
    \/ \E e \in Execs : StopLock(e)
    \/ \E e \in Execs : StopWrite(e)
    \/ \E e \in Execs : StopUpload(e)
    \/ \E e \in Execs : StopUnregister(e)
    \/ \E e \in Execs : StopReturn(e)
    \/ \E i \in Cks : CkTick(i)
    \/ \E i \in Cks : CkExit(i)
    \/ \E i \in Cks : CkLock(i)
    \/ \E i \in Cks : CkWrite(i)
    \/ \E i \in Cks : CkUpload(i)
    \/ RebuildBegin
    \/ RebuildEnd
    \/ Signal
    \/ HandlerNext
    \/ HandlerExit
    \/ Exit
    \/ AtexitBegin
    \/ AtexitNext

Spec == Init /\ [][Next]_vars

\* The store before its first use, for the runs that do not exercise the
\* faiss lifecycle

FaissUnused ==
    /\ env = [s3 |-> FALSE, threads |-> {}, reloaders |-> {}, rebuild |-> FALSE,
              ticks |-> FALSE, stops |-> FALSE]
    /\ s3 = FALSE
    /\ localFile = [c |-> 1, w |-> 0, mixed |-> FALSE]
    /\ remoteObj = NoFile
    /\ corpusFile = 1 /\ nart = 1 /\ rebuilding = FALSE
    /\ records = NoFile /\ handles = <<>> /\ faiss_index = 0
    /\ faiss_lock = FreeLock /\ faiss_checkpoint = 0 /\ ck = <<>>
    /\ FAISS_CHECKPOINTS = <<>> /\ FAISS_SIGNAL_LOCK = "none"
    /\ FAISS_SIGNAL_INSTALLED = FALSE /\ handlerSet = FALSE /\ atexitList = <<>>
    /\ thr = [e \in Execs |-> IF e = "sig" THEN [Frame0 EXCEPT !.pc = "off"] ELSE Frame0]
    /\ hist = [epochLoads |-> 0, epochCkpts |-> 0, lastUp |-> 0, maxUp |-> 0, floor |-> 0]

\* ------------------------------------------ run_retrieval (rag.py 75-88)
\* The overrides a request carries: top_k absent or an integer, model absent
\* ("" stands for None and for the empty string, both falsy) or a name
TopKArgs == {[given |-> FALSE, v |-> 0], [given |-> TRUE, v |-> 0], [given |-> TRUE, v |-> 2]}
ModelArgs == {"", "gpt-5"}

Max(a, b) == IF a >= b THEN a ELSE b

\* agent = get_retrieval_agent(); original_top_k = agent.top_k
RunRetrievalBegin(c) ==
    /\ rr[c].pc = "idle"
    /\ \E k \in TopKArgs : \E m \in ModelArgs :
          rr' = [rr EXCEPT ![c] = [pc |-> "orig_model", top_k |-> k, model |-> m,
                                   original_top_k |-> agent.top_k,
                                   original_model |-> ""]]
    /\ UNCHANGED <<agent, faissVars, mmrVars, ladderVars, backendVars>>

\* original_model = getattr(agent, "model", None)
SaveOriginalModel(c) ==
    /\ rr[c].pc = "orig_model"
    /\ rr' = [rr EXCEPT ![c].pc = "set_top_k", ![c].original_model = agent.model]
    /\ UNCHANGED <<agent, faissVars, mmrVars, ladderVars, backendVars>>

\* if top_k is not None: agent.top_k = max(1, int(top_k))
OverrideTopK(c) ==
    /\ rr[c].pc = "set_top_k"
    /\ agent' = IF rr[c].top_k.given
                THEN [agent EXCEPT !.top_k = Max(1, rr[c].top_k.v)] ELSE agent
    /\ rr' = [rr EXCEPT ![c].pc = "set_model"]
    /\ UNCHANGED <<faissVars, mmrVars, ladderVars, backendVars>>

\* if model: agent.model = model
OverrideModel(c) ==
    /\ rr[c].pc = "set_model"
    /\ agent' = IF rr[c].model # "" THEN [agent EXCEPT !.model = rr[c].model] ELSE agent
    /\ rr' = [rr EXCEPT ![c].pc = "run"]
    /\ UNCHANGED <<faissVars, mmrVars, ladderVars, backendVars>>

\* return agent.run(question): it returns or raises, and the finally
\* clause runs either way
AgentRun(c) ==
    /\ rr[c].pc = "run"
    /\ rr' = [rr EXCEPT ![c].pc = "restore_top_k"]
    /\ UNCHANGED <<agent, faissVars, mmrVars, ladderVars, backendVars>>

\* finally: agent.top_k = original_top_k
RestoreTopK(c) ==
    /\ rr[c].pc = "restore_top_k"
    /\ agent' = [agent EXCEPT !.top_k = rr[c].original_top_k]
    /\ rr' = [rr EXCEPT ![c].pc = "restore_model"]
    /\ UNCHANGED <<faissVars, mmrVars, ladderVars, backendVars>>

\* if original_model is not None: agent.model = original_model
RestoreModel(c) ==
    /\ rr[c].pc = "restore_model"
    /\ agent' = [agent EXCEPT !.model = rr[c].original_model]
    /\ rr' = [rr EXCEPT ![c] = NoCall]
    /\ UNCHANGED <<faissVars, mmrVars, ladderVars, backendVars>>

NextRun ==
    \/ \E c \in Callers : RunRetrievalBegin(c)
    \/ \E c \in Callers : SaveOriginalModel(c)
    \/ \E c \in Callers : OverrideTopK(c)
    \/ \E c \in Callers : OverrideModel(c)
    \/ \E c \in Callers : AgentRun(c)
    \/ \E c \in Callers : RestoreTopK(c)
    \/ \E c \in Callers : RestoreModel(c)

InitRun == RunInit /\ FaissUnused /\ LadderUnused /\ BackendUnused /\ MmrUnused

SpecRun == InitRun /\ [][NextRun]_vars

\* ------------------- RetrievalAgent._llm_answer and run (retrieval_agent.py)
\* A string is kept as its lines, a line as its words; "" is <<>>.
MaxDocs == 2     \* passages handed to _llm_answer

\* The texts a passage can carry: none, one sentence under 40 characters,
\* one sentence of 40 to 300 characters, such a sentence that holds a risk
\* term ("error"), and two sentences of 40 to 300 characters.
ShortText == "short"
LongText == "long"
RiskText == "risk"
DoubleText == "double"
Texts == {"", ShortText, LongText, RiskText, DoubleText}

\* the hits search(include_text=True, include_embedding=True) hands to run()
Passages == [id : {"", "a", "b"}, score : {1}, chunk : {0}, text : Texts,
             embedding : {<<1>>}]
DocLists == UNION {[1..n -> Passages] : n \in 0..MaxDocs}

\* re.split(r"(?<=[.!?])\s+", t) and `if 40 <= len(s) <= 300`
Sentences(t) ==
    IF t = LongText THEN <<"sentence">>
    ELSE IF t = RiskText THEN <<"sentence on error">>
    ELSE IF t = DoubleText THEN <<"first sentence", "second sentence">>
    ELSE <<>>

Take(q, n) == SubSeq(q, 1, IF Len(q) < n THEN Len(q) ELSE n)

\* texts = [d.get("text", "") for d in docs if d.get("text")]
RECURSIVE NonEmptyTexts(_)
NonEmptyTexts(ds) ==
    IF ds = <<>> THEN <<>>
    ELSE IF Head(ds).text # "" THEN <<Head(ds).text>> \o NonEmptyTexts(Tail(ds))
    ELSE NonEmptyTexts(Tail(ds))

\* lines 233-242: collect the sentences text by text, stopping at five
RECURSIVE Collect(_, _)
Collect(ts, sents) ==
    IF ts = <<>> \/ Len(sents) >= 5 THEN sents
    ELSE Collect(Tail(ts), Take(sents \o Sentences(Head(ts)), 5))

\* summary = " ".join(sents[:3]) or "Context available but ..."
Summary(ds) ==
    LET sents == Take(Collect(NonEmptyTexts(ds), <<>>), 3)
    IN  IF sents = <<>> THEN <<"Context available but LLM unavailable to synthesize.">>
        ELSE sents

\* lines 246-262: one of the two canned lists
Risks(ds) ==
    IF \E i \in 1..Len(ds) : ds[i].text = RiskText
    THEN << <<"-", "Hallucination or misinterpretation under uncertainty">>,
            <<"-", "Over-reliance on external retrieval quality">>,
            <<"-", "Action/observation loops leading to errors">> >>
    ELSE << <<"-", "Ambiguous context may reduce answer quality">>,
            <<"-", "Limited grounding without full model synthesis">>,
            <<"-", "Potential omission of key details">> >>

\* variant for comparison: every id is listed, repeated or not
RECURSIVE SourceIdsAll(_, _)
SourceIdsAll(ds, seen) ==
    IF ds = <<>> THEN <<>>
    ELSE IF Head(ds).id # "" THEN <<Head(ds).id>> \o SourceIdsAll(Tail(ds), seen)
    ELSE SourceIdsAll(Tail(ds), seen)

\* lines 264-270 (and 330-336): `if sid and sid not in seen`
RECURSIVE SourceIds(_, _)
SourceIds(ds, seen) ==
    IF ds = <<>> THEN <<>>
    ELSE IF Head(ds).id # "" /\ Head(ds).id \notin seen
         THEN <<Head(ds).id>> \o SourceIds(Tail(ds), seen \cup {Head(ds).id})
         ELSE SourceIds(Tail(ds), seen)

Tag == <<"[#1]", "[#2]", "[#3]", "[#4]">>

\* "\n".join(lines)
JoinLines(lines) == IF lines = <<>> \/ lines = << <<>> >> THEN <<>> ELSE lines

\* lines 272-282
LocalAnswer(ds) ==
    LET srcs == SourceIds(ds, {})
        head == << Summary(ds), <<>>, <<"### Key Risks:">> >> \o Risks(ds)
        tail == IF srcs = <<>> THEN <<>>
                ELSE << <<>>, <<"Sources:">> >> \o
                     [i \in 1..Len(srcs) |-> <<"-", Tag[i], srcs[i]>>]
    IN  JoinLines(head \o tail)

\* what a remote call can do: raise, answer without text, answer with text
Outcomes == {"raise", "empty", "text"}
RemoteText == << <<"remote answer">> >>

Ladder(pc, o) == [lad EXCEPT !.pc = pc, !.calls = Append(@, o)]
Returns(ans, via, o) ==
    [lad EXCEPT !.pc = "returned", !.answer = ans, !.via = via, !.calls = Append(@, o)]

\* client = OpenAI(), inside the outer try
Construct ==
    /\ lad.pc = "client"
    /\ \E o \in {"raise", "ok"} :
          lad' = IF o = "raise" THEN Ladder("local", o)
                 ELSE Ladder(IF lad.is_v5 THEN "stream" ELSE "create", o)
    /\ UNCHANGED <<faissVars, mmrVars, runVars, backendVars>>

\* lines 153-178: client.responses.stream for gpt-5 models; `if parts:
\* return`, an exception is swallowed
Stream ==
    /\ lad.pc = "stream"
    /\ \E o \in Outcomes :
          lad' = IF o = "text" THEN Returns(RemoteText, "remote", o)
                 ELSE Ladder("create", o)
    /\ UNCHANGED <<faissVars, mmrVars, runVars, backendVars>>

\* lines 180-209: client.responses.create; `if text: return str(text)`; for
\* gpt-5 an empty answer raises and the handler re-raises into the outer
\* except, otherwise the chat fallback follows
ResponsesCreate ==
    /\ lad.pc = "create"
    /\ \E o \in Outcomes :
          lad' = IF o = "text" THEN Returns(RemoteText, "remote", o)
                 ELSE Ladder(IF lad.is_v5 THEN "local" ELSE "legacy", o)
    /\ UNCHANGED <<faissVars, mmrVars, runVars, backendVars>>

\* `resp.choices[0].message.content or ""`
ChatContent(o) == IF o = "text" THEN RemoteText ELSE <<>>

\* lines 220-225: chat.completions.create(max_tokens, temperature)
ChatLegacy ==
    /\ lad.pc = "legacy"
    /\ \E o \in Outcomes :
          lad' = IF o = "raise" THEN Ladder("alternate", o)
                 ELSE Returns(ChatContent(o), "remote", o)
    /\ UNCHANGED <<faissVars, mmrVars, runVars, backendVars>>

\* variant for comparison: the exception of the second chat call leaves
\* _llm_answer
AlternateRaisedEscapes == "raised"

\* line 226 runs inside the handler of the legacy call, which is inside the
\* outer try: its exception is caught at line 228
AlternateRaised == "local"

\* lines 226-227: chat.completions.create(max_completion_tokens)
ChatAlternate ==
    /\ lad.pc = "alternate"
    /\ \E o \in Outcomes :
          lad' = IF o = "raise" THEN Ladder(AlternateRaised, o)
                 ELSE Returns(ChatContent(o), "remote", o)
    /\ UNCHANGED <<faissVars, mmrVars, runVars, backendVars>>

\* lines 228-282: the local summary
LocalFallback ==
    /\ lad.pc = "local"
    /\ lad' = [lad EXCEPT !.pc = "returned", !.answer = LocalAnswer(lad.docs),
                          !.via = "local"]
    /\ UNCHANGED <<faissVars, mmrVars, runVars, backendVars>>

\* variant for comparison: run() hands the passages back as they are
RunHitRaw(d) == d

\* run() lines 326-329
RunHit(d) == [id |-> d.id, score |-> d.score, chunk |-> d.chunk]

\* run() lines 326-343: hits, sources, result
RunResult ==
    /\ lad.pc = "returned"
    /\ LET hits == [i \in 1..Len(lad.docs) |-> RunHit(lad.docs[i])]
       IN  lad' = [lad EXCEPT !.pc = "done", !.hits = hits,
                              !.sources = SourceIds(hits, {})]
    /\ UNCHANGED <<faissVars, mmrVars, runVars, backendVars>>

NextLadder ==
    \/ Construct
    \/ Stream
    \/ ResponsesCreate
    \/ ChatLegacy
    \/ ChatAlternate
    \/ LocalFallback
    \/ RunResult

\* run() has the passages of _mmr and calls _llm_answer(question, docs)
InitLadder ==
    /\ \E ds \in DocLists : \E v5 \in BOOLEAN :
          lad = [NoLadder EXCEPT !.pc = "client", !.docs = ds, !.is_v5 = v5]
    /\ RunInit /\ FaissUnused /\ BackendUnused /\ MmrUnused

SpecLadder == InitLadder /\ [][NextLadder]_vars

\* --------------- LocalVectorStore.__init__ and search (vector_store.py 53-425)
\* One store is constructed over an index directory and answers one search.
\* Scores are cosines in hundredths; every vector of the model has an
\* integer norm.
MaxRecs == 2     \* lines of index.jsonl
MaxTopK == 2     \* top_k of a search
MaxNorm == 5     \* largest norm of a vector of the model

Backends == {"json", "numpy", "faiss", "chroma", "opensearch", "redis"}
BackendNames == Backends \cup {"bogus"}
S3Configs == {"none", "bucket", "key", "both"}   \* FAISS_S3_BUCKET / FAISS_S3_KEY set

Ids == <<"d1", "d2", "d3">>
Embeddings == {<<1, 0>>, <<0, 1>>, <<3, 4>>, <<1>>}
QueryVecs == {<<1, 0>>, <<0, 0>>}

\* a line of index.jsonl: a record with an embedding list, a line that is
\* not JSON, or a JSON object without an embedding list
LineShapes == [kind : {"rec"}, embedding : Embeddings]
                 \cup [kind : {"bad", "noemb"}, embedding : {<<>>}]
LinesOf(f) == [i \in DOMAIN f |->
                 [id |-> Ids[i], chunk |-> i - 1, text |-> "t", kind |-> f[i].kind,
                  embedding |-> f[i].embedding]]
Files == {[exists |-> FALSE, lines |-> <<>>]} \cup
         UNION {{[exists |-> TRUE, lines |-> LinesOf(f)] : f \in [1..n -> LineShapes]}
                  : n \in 0..MaxRecs}

\* embed.cosine_similarity: zip() stops at the shorter vector
Min(a, b) == IF a <= b THEN a ELSE b
RECURSIVE DotUpTo(_, _, _)
DotUpTo(a, b, n) == IF n = 0 THEN 0 ELSE a[n] * b[n] + DotUpTo(a, b, n - 1)
Dot(a, b) == DotUpTo(a, b, Min(Len(a), Len(b)))
Norm(a) == CHOOSE n \in 0..MaxNorm : n * n = Dot(a, a)
Cos(a, b) ==
    IF a = <<>> \/ b = <<>> THEN 0
    ELSE IF Norm(a) = 0 \/ Norm(b) = 0 THEN 0
    ELSE (Dot(a, b) * 100) \div (Norm(a) * Norm(b))

\* __init__ lines 71-80 and 115-131: the checks that raise
ConstructRaises(v) ==
    \/ v.backend \in {"numpy", "faiss", "chroma", "opensearch", "redis"} /\ ~v.dep
    \/ v.backend = "faiss" /\ v.s3cfg \in {"bucket", "key"}
    \/ v.backend = "faiss" /\ v.s3cfg = "both" /\ ~v.boto3

StoreConstruct ==
    /\ vs.pc = "new"
    /\ vs' = [vs EXCEPT !.pc = IF ConstructRaises(vs) THEN "failed" ELSE "ready"]
    /\ UNCHANGED <<faissVars, mmrVars, runVars, ladderVars>>

\* _ensure_records: json.loads raises on a line that is not JSON; a missing
\* file gives no records; an object without an embedding list is left out
ParseRaises(f) == \E i \in 1..Len(f.lines) : f.lines[i].kind = "bad"
IsRecord(l) == l.kind = "rec"
Records(f) == SelectSeq(f.lines, IsRecord)

\* search(): _ensure_records() and embed_text(query)
StoreSearch ==
    /\ vs.pc = "ready"
    /\ \E k \in 1..MaxTopK : \E it \in BOOLEAN : \E ie \in BOOLEAN : \E q \in QueryVecs :
          vs' = IF ParseRaises(vs.file)
                THEN [vs EXCEPT !.pc = "done", !.out = "err", !.top_k = k,
                                !.include_text = it, !.include_embedding = ie,
                                !.query_vec = q]
                ELSE [vs EXCEPT !.pc = "dispatch", !.records = Records(vs.file),
                                !.top_k = k, !.include_text = it,
                                !.include_embedding = ie, !.query_vec = q]
    /\ UNCHANGED <<faissVars, mmrVars, runVars, ladderVars>>

\* variant for comparison: text and embedding are always attached
FieldsAll(it, ie) == {"id", "score", "chunk", "text", "embedding"}

\* `if include_text: item["text"] = ...`, `if include_embedding: ...`
Fields(it, ie) ==
    {"id", "score", "chunk"} \cup (IF it THEN {"text"} ELSE {})
                             \cup (IF ie THEN {"embedding"} ELSE {})

Item(id, score, chunk, text, embedding) ==
    [k \in Fields(vs.include_text, vs.include_embedding) |->
        CASE k = "id" -> id
          [] k = "score" -> score
          [] k = "chunk" -> chunk
          [] k = "text" -> text
          [] k = "embedding" -> embedding]

RecItem(rec, score) == Item(rec.id, score, rec.chunk, rec.text, rec.embedding)

Found(hits) == [vs EXCEPT !.pc = "done", !.out = "ok", !.hits = hits]
Failed == [vs EXCEPT !.pc = "done", !.out = "err"]

\* list.sort(key=score, reverse=True): stable, the earlier of two equal
\* scores stays first
RECURSIVE InsertDesc(_, _)
InsertDesc(sorted, x) ==
    IF sorted = <<>> THEN <<x>>
    ELSE IF Head(sorted).score >= x.score
         THEN <<Head(sorted)>> \o InsertDesc(Tail(sorted), x)
         ELSE <<x>> \o sorted
RECURSIVE SortInto(_, _)
SortInto(sorted, rest) ==
    IF rest = <<>> THEN sorted ELSE SortInto(InsertDesc(sorted, Head(rest)), Tail(rest))

\* variant for comparison: the scored list is left in corpus order
SortDescKeepsOrder(scored) == scored

SortDesc(scored) == SortInto(<<>>, scored)

\* _json_search
JsonSearch ==
    /\ vs.pc = "dispatch" /\ vs.backend = "json"
    /\ LET scored == [i \in 1..Len(vs.records) |->
                        [score |-> Cos(vs.query_vec, vs.records[i].embedding),
                         rec |-> vs.records[i]]]
           top == Take(SortDesc(scored), vs.top_k)
       IN  vs' = IF vs.records = <<>> THEN Found(<<>>)
                 ELSE Found([i \in 1..Len(top) |-> RecItem(top[i].rec, top[i].score)])
    /\ UNCHANGED <<faissVars, mmrVars, runVars, ladderVars>>

\* vectors.npy as the store finds it: missing, or a matrix of unit rows
RowsOf(recs) == [i \in 1..Len(recs) |-> recs[i].embedding]
Uniform(rows, d) == \A i \in 1..Len(rows) : Len(rows[i]) = d
VectorFiles(recs) ==
    {[exists |-> FALSE, rows |-> <<>>], [exists |-> TRUE, rows |-> RowsOf(recs)],
     [exists |-> TRUE, rows |-> Append(RowsOf(recs), <<1, 0>>)],
     [exists |-> TRUE, rows |-> [i \in 1..Len(recs) |-> <<1>>]]}

\* numpy.argsort(scores): any order that is ascending in the score
AscendingOrders(scores) ==
    {p \in [1..Len(scores) -> 1..Len(scores)] :
        /\ \A i \in 1..Len(scores) : \A j \in 1..Len(scores) : i # j => p[i] # p[j]
        /\ \A i \in 1..(Len(scores) - 1) : scores[p[i]] <= scores[p[i + 1]]}

\* rows.dot(query / norm), or zeros for a zero query
RowScores(rows, q) == [i \in 1..Len(rows) |-> Cos(rows[i], q)]

\* _numpy_search with _ensure_numpy_vectors
NumpySearch ==
    /\ vs.pc = "dispatch" /\ vs.backend = "numpy"
    /\ \E vf \in VectorFiles(vs.records) :
          IF \/ ~vf.exists
             \/ Len(vf.rows) # Len(vs.records)
             \/ ~Uniform(vf.rows, Len(vs.query_vec))
          THEN vs' = [Failed EXCEPT !.mismatch = TRUE]
          ELSE \E p \in AscendingOrders(RowScores(vf.rows, vs.query_vec)) :
                  LET scores == RowScores(vf.rows, vs.query_vec)
                      top_idx == Take(Reverse(p), vs.top_k)
                  IN  vs' = Found([i \in 1..Len(top_idx) |->
                                     RecItem(vs.records[top_idx[i]], scores[top_idx[i]])])
    /\ UNCHANGED <<faissVars, mmrVars, runVars, ladderVars>>

\* the vectors of the faiss index next to the records: those of the records,
\* or one more (an index from another build)
FaissIndexes(recs) == {RowsOf(recs), Append(RowsOf(recs), <<1, 0>>)}

\* _faiss_search lines 239-261: index.search gives the top_k rows by inner
\* product, best first; rows without a record are passed over
FaissHits ==
    /\ vs.pc = "dispatch" /\ vs.backend = "faiss"
    /\ \/ vs' = Failed          \* the index could not be loaded
       \/ \E rows \in FaissIndexes(vs.records) :
             IF ~Uniform(rows, Len(vs.query_vec))
             THEN vs' = Failed  \* faiss rejects the dimension
             ELSE LET scored == [i \in 1..Len(rows) |->
                                   [score |-> Cos(rows[i], vs.query_vec), idx |-> i]]
                      top == Take(SortDesc(scored), vs.top_k)
                      IsKnown(h) == h.idx <= Len(vs.records)
                      kept == SelectSeq(top, IsKnown)
                  IN  vs' = [Found([i \in 1..Len(kept) |->
                                     RecItem(vs.records[kept[i].idx], kept[i].score)])
                               EXCEPT !.mismatch = Len(rows) # Len(vs.records)]
    /\ UNCHANGED <<faissVars, mmrVars, runVars, ladderVars>>

\* what a remote store answers to a k-nearest query: at most k documents,
\* nearest first
RemoteDocs == [id : {"d1", "d2"}, dist : {0, 50}, chunk : {0}, text : {"t"},
               embedding : {<<1, 0>>}]
Responses(k) ==
    UNION {{r \in [1..n -> RemoteDocs] : \A i \in 1..(n - 1) : r[i].dist <= r[i + 1].dist}
             : n \in 0..k}

\* score = 1.0 - distance (chroma, redis); _score (opensearch)
RemoteItem(d) == Item(d.id, 100 - d.dist, d.chunk, d.text, d.embedding)

RemoteBackends == {"chroma", "opensearch", "redis"}

\* _chroma_search, _opensearch_search, _redis_search
RemoteSearch(backend) ==
    /\ vs.pc = "dispatch" /\ vs.backend = backend
    /\ \/ vs' = Failed          \* the client could not be created, or the call raised
       \/ \E r \in Responses(vs.top_k) :
             vs' = Found([i \in 1..Len(r) |-> RemoteItem(r[i])])
    /\ UNCHANGED <<faissVars, mmrVars, runVars, ladderVars>>

\* search() line 157: raise ValueError("Unsupported vector backend")
Unsupported ==
    /\ vs.pc = "dispatch" /\ vs.backend \notin Backends
    /\ vs' = Failed
    /\ UNCHANGED <<faissVars, mmrVars, runVars, ladderVars>>

\* RetrievalAgent.run on the candidates of search(include_text=True,
\* include_embedding=True): _mmr keeps some of them, and the hits of the
\* result are built from those
RunHits ==
    /\ vs.pc = "done" /\ vs.out = "ok"
    /\ vs.include_text /\ vs.include_embedding
    /\ \E S \in SUBSET (1..Len(vs.hits)) :
          LET InS(i) == i \in S
              sel == SelectSeq([i \in 1..Len(vs.hits) |-> i], InS)
          IN  vs' = [vs EXCEPT !.pc = "run_done",
                               !.run_hits = [i \in 1..Len(sel) |-> RunHit(vs.hits[sel[i]])]]
    /\ UNCHANGED <<faissVars, mmrVars, runVars, ladderVars>>

NextStore ==
    \/ StoreConstruct
    \/ StoreSearch
    \/ JsonSearch
    \/ NumpySearch
    \/ FaissHits
    \/ \E b \in RemoteBackends : RemoteSearch(b)
    \/ Unsupported
    \/ RunHits

\* LocalVectorStore(path): the backend named by VECTOR_BACKEND or meta.json,
\* the packages that could be imported, the S3 settings, the index file
InitStore ==
    /\ \E b \in BackendNames : \E d \in BOOLEAN : \E f \in Files :
       \E c \in (IF b = "faiss" THEN S3Configs ELSE {"none"}) :
       \E b3 \in (IF b = "faiss" /\ c = "both" THEN BOOLEAN ELSE {TRUE}) :
          vs = [NoStore EXCEPT !.pc = "new", !.backend = b, !.dep = d, !.s3cfg = c,
                               !.boto3 = b3, !.file = f]
    /\ RunInit /\ FaissUnused /\ LadderUnused /\ MmrUnused

SpecStore == InitStore /\ [][NextStore]_vars

\* ------------------------- RetrievalAgent._mmr (retrieval_agent.py 284-314)
\* The embeddings are chosen so that every cosine among them is a multiple
\* of 1/4, which binary floating point holds exactly: a tie of the model is
\* a tie of the program.
MaxPool == 3     \* candidates handed to _mmr

LamNum == 3      \* lam = 0.75 = LamNum / LamDen
LamDen == 4

ZeroVec == <<0, 0, 0, 0, 0>>
MmrEmbeddings == {<<>>, ZeroVec, <<0, 0, 0, 0, 2>>, <<1, 0, 1, 1, 1>>, <<3, 2, 1, 1, 1>>}
MmrQueries == {<<0, 0, 0, 0, 2>>, <<1, 0, 1, 1, 1>>}

\* the candidates in pool order; pos tells one candidate from another
CandLists ==
    UNION {{[i \in 1..n |-> [pos |-> i, embedding |-> f[i]]] : f \in [1..n -> MmrEmbeddings]}
             : n \in 0..MaxPool}

\* pool = [c for c in cands if c.get("embedding")]
HasEmbedding(c) == c.embedding # <<>>
Pool(cands) == SelectSeq(cands, HasEmbedding)

\* variant for comparison: the seed is taken from the other end
SeedLast(sorted) == sorted[Len(sorted)]

\* remaining.sort(key=sim_q, reverse=True); selected.append(remaining.pop(0))
Seed(sorted) == Head(sorted)

BySimQ(pool, q) ==
    LET scored == [i \in 1..Len(pool) |->
                     [score |-> Cos(q, pool[i].embedding), rec |-> pool[i]]]
        sorted == SortDesc(scored)
    IN  [i \in 1..Len(sorted) |-> sorted[i].rec]

\* variant for comparison: the chosen candidate stays in remaining
RemoveAtNone(q, i) == q

\* remaining.pop(i)
RemoveAt(q, i) == SubSeq(q, 1, i - 1) \o SubSeq(q, i + 1, Len(q))

\* max(cosine_similarity(item, s) for s in selected)
RECURSIVE MaxSim(_, _)
MaxSim(e, selected) ==
    IF Len(selected) = 1 THEN Cos(e, selected[1].embedding)
    ELSE Max(Cos(e, Head(selected).embedding), MaxSim(e, Tail(selected)))

\* score = lam * sim_q - (1 - lam) * sim_sel, times LamDen
MmrScore(c, q, selected) ==
    LamNum * Cos(q, c.embedding) - (LamDen - LamNum) * MaxSim(c.embedding, selected)

\* lines 302-312: `if score > best_score` keeps the first of equal scores
RECURSIVE BestFrom(_, _, _)
BestFrom(scores, i, best_idx) ==
    IF i > Len(scores) THEN best_idx
    ELSE BestFrom(scores, i + 1, IF scores[i] > scores[best_idx] THEN i ELSE best_idx)
BestIdx(scores) == BestFrom(scores, 2, 1)

MmrReturn(res) == [mm EXCEPT !.pc = "done", !.result = res]

\* lines 290-300: the early returns, the sort and the seed
MmrBegin ==
    /\ mm.pc = "start"
    /\ LET pool == Pool(mm.cands)
           sorted == BySimQ(pool, mm.q_vec)
       IN  mm' = IF mm.cands = <<>> THEN MmrReturn(<<>>)
                 ELSE IF pool = <<>> THEN MmrReturn(Take(mm.cands, mm.k))
                 ELSE [mm EXCEPT !.pc = "loop", !.selected = <<Seed(sorted)>>,
                                 !.remaining = Tail(sorted)]
    /\ UNCHANGED <<faissVars, runVars, ladderVars, backendVars>>

\* one turn of `while remaining and len(selected) < k`
MmrSelect ==
    /\ mm.pc = "loop"
    /\ mm.remaining # <<>> /\ Len(mm.selected) < mm.k
    /\ LET scores == [i \in 1..Len(mm.remaining) |->
                        MmrScore(mm.remaining[i], mm.q_vec, mm.selected)]
           best_idx == BestIdx(scores)
       IN  mm' = [mm EXCEPT !.selected = Append(@, mm.remaining[best_idx]),
                            !.remaining = RemoveAt(@, best_idx),
                            !.last = <<[remaining |-> mm.remaining,
                                        selected |-> mm.selected,
                                        chosen |-> mm.remaining[best_idx]]>>]
    /\ UNCHANGED <<faissVars, runVars, ladderVars, backendVars>>

\* return selected[:k]
MmrEnd ==
    /\ mm.pc = "loop"
    /\ ~(mm.remaining # <<>> /\ Len(mm.selected) < mm.k)
    /\ mm' = MmrReturn(Take(mm.selected, mm.k))
    /\ UNCHANGED <<faissVars, runVars, ladderVars, backendVars>>

NextMmr ==
    \/ MmrBegin
    \/ MmrSelect
    \/ MmrEnd

\* docs = self._mmr(q_vec, cands, self.top_k)
InitMmr ==
    /\ \E cs \in CandLists : \E k \in 1..MaxPool : \E q \in MmrQueries :
          mm = [NoMmr EXCEPT !.pc = "start", !.cands = cs, !.k = k, !.q_vec = q]
    /\ RunInit /\ FaissUnused /\ LadderUnused /\ BackendUnused

SpecMmr == InitMmr /\ [][NextMmr]_vars


\* ================================================================ properties
StopPcs == {"st_set", "st_join", "st_lock", "st_write", "st_upload", "st_unreg", "st_unreg2"}
SearchDone(t) == thr[t].op = "search" /\ thr[t].pc = "ret"
ReloadDone(t) == thr[t].op = "reload" /\ thr[t].pc = "ret"

\* C1: a search that runs concurrently with reload() queries one fully
\* installed handle: when it reaches the query it holds the lock, the handle
\* is present and is the one _ensure_faiss_index saw, no search ever finds the
\* handle missing, and the ranking it returns comes from that one handle.
C1_SearchSeesOneGeneration ==
    \A t \in Workers :
        /\ thr[t].pc = "s_query" =>
              /\ faiss_index # 0
              /\ faiss_index = thr[t].seen
              /\ faiss_lock.owner = t
        /\ SearchDone(t) => thr[t].out # "missing"
        /\ (SearchDone(t) /\ thr[t].out = "ok") =>
              /\ thr[t].res = thr[t].seen
              /\ thr[t].res \in 1..Len(handles)

\* a search that started while another thread was inside reload() has been
\* answered, from the handle that reload installed
C1_Witness ==
    \E t \in Workers :
        /\ SearchDone(t) /\ thr[t].out = "ok" /\ thr[t].during
        /\ thr[t].res = 2

\* C2: when reload() fails, the handle that was loaded before the call is
\* still installed.
C2_FailedReloadKeepsHandle ==
    \A t \in Workers :
        (ReloadDone(t) /\ thr[t].out = "err" /\ thr[t].old # 0) => faiss_index = thr[t].old

\* C3: once reload() of a loaded store has returned successfully, the handle
\* it installed and the handle of every search started afterwards hold an
\* artifact at least as new as the one the build pipeline had written when
\* reload() was called (never the previously loaded one).
C3_ReloadInstallsRebuiltArtifact ==
    \A t \in Workers :
        /\ (ReloadDone(t) /\ thr[t].out = "ok" /\ thr[t].old # 0) =>
              handles[thr[t].res] >= thr[t].want
        /\ (SearchDone(t) /\ thr[t].out = "ok") => handles[thr[t].res] >= thr[t].want

\* C4: the remote object is never written by the checkpoint of an older
\* generation once the checkpoint of a newer generation has written it.
C4_CheckpointMonotonic == hist.lastUp >= hist.maxUp

\* C5: the remote object is always a complete serialisation: no upload has
\* read the local file while a writer was part-way through it.
C5_RemoteNeverTorn == remoteObj # Torn

\* C6: a stop() called after an earlier stop() of the same checkpoint has
\* returned goes straight back to its caller: no join, no upload, no write
\* of the local file, no change to the registry or to the checkpoint.
C6_SecondStopIsNoOp ==
    [][\A e \in Execs :
          (/\ thr[e].pc = "st_check"
           /\ ck[thr[e].c].done
           /\ thr'[e] # thr[e]
           /\ thr'[e].op = thr[e].op)
          => /\ thr'[e].pc = Ret(e)
             /\ UNCHANGED <<localFile, remoteObj, ck, FAISS_CHECKPOINTS, FAISS_SIGNAL_LOCK>>]_vars

\* a stop() is about to run on a checkpoint whose first stop() has returned
C6_Witness ==
    \E e \in Execs : thr[e].pc = "st_check" /\ ck[thr[e].c].done

\* C7: the signal handler's stop() calls never wait for a lock that the
\* interrupted main thread holds.
C7_HandlerNeverBlockedByMain ==
    ~ /\ SigActive
      /\ \/ thr["sig"].pc = "st_unreg" /\ FAISS_SIGNAL_LOCK = "main"
         \/ thr["sig"].pc = "st_lock" /\ ck[thr["sig"].c].lock = "main"

\* C8: a stop() that found the event unset makes exactly one upload attempt,
\* with the loop already signalled, and unregisters after it whether or not
\* the upload raised; once such a stop() is over the checkpoint is out of the
\* registry.
InStop(e, c) == thr[e].c = c /\ thr[e].pc \in StopPcs \ {"st_set"} /\ thr[e].op # "unwind"

C9_FailedUploadKeepsLoopAlive ==
    \A i \in Cks :
        /\ ck[i].tpc = "dead" => ck[i].stop
        /\ (ck[i].failed /\ ~ck[i].stop) => ck[i].tpc \in {"wait", "pre"}

\* after a failed upload the loop has started its next attempt
C9_Witness ==
    \E i \in Cks : ck[i].failed /\ ck[i].tpc = "pre" /\ ~ck[i].stop

\* C10: between two unloads the artifact is read exactly once and at most
\* one checkpoint task is started, whatever number of searches run; a search
\* that finds the store loaded uses the installed handle.
C10_LoadIsSingleFlight ==
    /\ hist.epochLoads = (IF faiss_index = 0 THEN 0 ELSE 1)
    /\ hist.epochCkpts <= 1
    /\ faiss_checkpoint # 0 => hist.epochCkpts = 1
    /\ Cardinality({t \in Workers : thr[t].pc \in {"l_dl", "l_read", "l_ck"}}) <= 1
    /\ \A t \in Workers : thr[t].pc = "s_query" => thr[t].seen = faiss_index

\* two searches that both started on the unloaded store share the one handle
\* that was read
C10_Witness ==
    \E t \in Workers : \E u \in Workers \ {t} :
        /\ SearchDone(t) /\ thr[t].out = "ok" /\ thr[t].first
        /\ thr[u].op = "search" /\ thr[u].first /\ thr[u].pc = "s_query"
        /\ thr[u].seen = thr[t].res
        /\ Len(handles) = 1

\* C11: while no artifact exists at the local path (and, with S3 configured,
\* no object exists at the key), every search that has returned has failed
\* with an error, and no handle and no checkpoint was ever installed; a
\* search that returns results ranked them on a handle read from a complete
\* artifact.
Absent == IF s3 THEN remoteObj = NoFile ELSE localFile.c = NoFile

C11_MissingArtifactIsFatal ==
    /\ Absent =>
          /\ faiss_index = 0 /\ handles = <<>>
          /\ faiss_checkpoint = 0 /\ ck = <<>>
          /\ \A t \in Workers : SearchDone(t) => thr[t].out = "err"
    /\ \A t \in Workers :
          (SearchDone(t) /\ thr[t].out = "ok") =>
             /\ thr[t].res \in 1..Len(handles)
             /\ handles[thr[t].res] \in 1..MaxArt

\* the first search on a store whose artifact is missing has raised
C11_Witness ==
    \E t \in Workers :
        /\ Absent /\ SearchDone(t) /\ thr[t].first /\ thr[t].out = "err"
        /\ faiss_index = 0 /\ faiss_checkpoint = 0

\* C12: once every run_retrieval call has returned, the shared agent's top_k
\* and model are the configured ones, whatever overrides the calls carried
\* and however they interleaved.
C12_OverridesRestored ==
    (\A c \in Callers : rr[c].pc = "idle") => agent = NewAgent

LadderOver == lad.pc \in {"returned", "done"}

\* C13: the answer _llm_answer returns is never the empty string.
C13_AnswerNonEmpty == LadderOver => lad.answer # <<>>

\* C14: no exception of a remote call leaves _llm_answer: whatever the calls
\* do, the call is on its way to a return and has not ended by raising.
C14_LadderAlwaysReturns ==
    /\ lad.pc # "raised"
    /\ lad.pc \in {"client", "stream", "create", "legacy", "alternate", "local"} =>
          ENABLED NextLadder

\* every remote call that was made has raised and run() has its result
C14_Witness ==
    /\ lad.pc = "done"
    /\ lad.calls = <<"ok", "raise", "raise", "raise">>
    /\ lad.via = "local"

\* C15: with no passages the answer is the text the ladder produces on its
\* own for an empty passage list, whatever the remote service does, and
\* sources is empty.
C15_NoPassagesFixedAnswer ==
    (lad.pc = "done" /\ lad.docs = <<>>) =>
        /\ lad.answer = LocalAnswer(<<>>)
        /\ lad.sources = <<>>

\* the source lines of an answer: what follows the "Sources:" line
Listed(ans) ==
    IF \E p \in 1..Len(ans) : ans[p] = <<"Sources:">>
    THEN LET p == CHOOSE q \in 1..Len(ans) : ans[q] = <<"Sources:">>
         IN  [j \in 1..(Len(ans) - p) |-> ans[p + j][3]]
    ELSE <<>>

FirstAt(ds, x) == CHOOSE i \in 1..Len(ds) : ds[i].id = x /\ \A j \in 1..(i - 1) : ds[j].id # x

\* C16: the local fallback's answer is non-empty and lists the id of every
\* passage that has one, each id once, in the order of first occurrence.
C16_FallbackListsSources ==
    (LadderOver /\ lad.via = "local") =>
        LET L == Listed(lad.answer)
            ds == lad.docs
        IN  /\ lad.answer # <<>>
            /\ \A i \in 1..Len(ds) :
                  ds[i].id # "" => Cardinality({j \in 1..Len(L) : L[j] = ds[i].id}) = 1
            /\ \A j \in 1..Len(L) : \E i \in 1..Len(ds) : ds[i].id = L[j]
            /\ \A j \in 1..Len(L) : \A k \in (j + 1)..Len(L) :
                  FirstAt(ds, L[j]) < FirstAt(ds, L[k])

\* every remote call failed on two passages of the same source
C16_Witness ==
    /\ LadderOver /\ lad.via = "local"
    /\ "text" \notin {lad.calls[i] : i \in 1..Len(lad.calls)}
    /\ Len(lad.docs) = 2 /\ lad.docs[1].id = "a" /\ lad.docs[2].id = "a"
    /\ Listed(lad.answer) = <<"a">>

SearchOver == vs.pc \in {"done", "run_done"}
AlphaBeta ==
    /\ vs.backend \in {"json", "numpy"}
    /\ Len(vs.records) = 2
    /\ vs.records[1].embedding = <<1, 0>> /\ vs.records[2].embedding = <<0, 1>>
    /\ vs.query_vec = <<1, 0>> /\ vs.top_k = 2

\* C17: a search that returns gives at most top_k hits, ordered by score
\* non-increasing; on the corpus [1,0], [0,1] with query [1,0] the first
\* record comes first with the strictly higher score.
C17_AtMostTopKSortedByScore ==
    (SearchOver /\ vs.out = "ok") =>
        /\ Len(vs.hits) <= vs.top_k
        /\ \A i \in 1..Len(vs.hits) : \A j \in (i + 1)..Len(vs.hits) :
              vs.hits[i].score >= vs.hits[j].score
        /\ AlphaBeta =>
              /\ Len(vs.hits) = 2
              /\ vs.hits[1].id = vs.records[1].id /\ vs.hits[2].id = vs.records[2].id
              /\ vs.hits[1].score > vs.hits[2].score

\* the numpy backend has ranked the two-record corpus
C17_Witness ==
    /\ SearchOver /\ vs.out = "ok" /\ AlphaBeta /\ vs.backend = "numpy"
    /\ Len(vs.hits) = 2 /\ vs.hits[1].score = 100 /\ vs.hits[2].score = 0

\* C18: a hit carries text only if include_text and an embedding only if
\* include_embedding, whatever the backend; the hits of run() carry neither.
C18_FlagsBoundThePayload ==
    /\ (SearchOver /\ vs.out = "ok") =>
          \A i \in 1..Len(vs.hits) :
             /\ ~vs.include_text => "text" \notin DOMAIN vs.hits[i]
             /\ ~vs.include_embedding => "embedding" \notin DOMAIN vs.hits[i]
    /\ vs.pc = "run_done" =>
          \A i \in 1..Len(vs.run_hits) : DOMAIN vs.run_hits[i] = {"id", "score", "chunk"}

\* a remote backend has answered a search that asked for neither field
C18_Witness ==
    /\ SearchOver /\ vs.out = "ok" /\ vs.backend = "redis"
    /\ ~vs.include_text /\ ~vs.include_embedding
    /\ Len(vs.hits) = 2 /\ DOMAIN vs.hits[1] = {"id", "score", "chunk"}

\* C19: a store that came out of its constructor has a backend the store
\* supports, whose package is present, and complete S3 settings.
C19_ConfigErrorsFatalAtConstruction ==
    vs.pc \notin {"off", "new", "failed"} =>
        /\ vs.backend \in Backends
        /\ vs.backend # "json" => vs.dep
        /\ vs.backend = "faiss" => vs.s3cfg \in {"none", "both"}
        /\ (vs.backend = "faiss" /\ vs.s3cfg = "both") => vs.boto3

DataError ==
    \/ ParseRaises(vs.file)
    \/ vs.backend \in {"json", "numpy", "faiss"} /\ Records(vs.file) = <<>>
    \/ vs.mismatch

\* C20: a search over an artifact with a line that is not JSON, over an
\* empty corpus, or over stored vectors that do not match the records ends
\* with an error.
C20_DataErrorsSurfaced == (SearchOver /\ DataError) => vs.out = "err"

MmrDone == mm.pc = "done"
SimQ(c) == Cos(mm.q_vec, c.embedding)
Occurs(c, res) == Cardinality({i \in 1..Len(res) : res[i] = c})

\* C21: with k = 1 and a candidate that has an embedding, _mmr returns one
\* candidate: of the candidates with an embedding, the first in pool order
\* among those of highest cosine similarity to the query.
C21_KOneReturnsBest ==
    (MmrDone /\ mm.k = 1 /\ Pool(mm.cands) # <<>>) =>
        /\ Len(mm.result) = 1
        /\ HasEmbedding(mm.result[1])
        /\ \A i \in 1..Len(mm.cands) :
              HasEmbedding(mm.cands[i]) =>
                 \/ SimQ(mm.cands[i]) < SimQ(mm.result[1])
                 \/ SimQ(mm.cands[i]) = SimQ(mm.result[1]) /\ mm.result[1].pos <= i

\* the best candidate was the last of three, and was returned alone
C21_Witness ==
    /\ MmrDone /\ mm.k = 1 /\ Len(mm.cands) = 3
    /\ mm.result = <<mm.cands[3]>>
    /\ SimQ(mm.cands[3]) > SimQ(mm.cands[1]) /\ HasEmbedding(mm.cands[1])

\* C22 as stated: with k equal to the number of candidates, every candidate
\* passed in appears exactly once in the result.
C22_WholePoolPermuted ==
    (MmrDone /\ mm.k = Len(mm.cands)) =>
        /\ Len(mm.result) = Len(mm.cands)
        /\ \A i \in 1..Len(mm.cands) : Occurs(mm.cands[i], mm.result) = 1

\* C22 amended: with k equal to the number of candidates, the result holds
\* every candidate exactly once when all of them have an embedding or none
\* has; when only some have one, it holds exactly those, each once.
C22_EmbeddedPoolPermuted ==
    (MmrDone /\ mm.k = Len(mm.cands)) =>
        LET pool == Pool(mm.cands)
            kept == IF pool = <<>> THEN mm.cands ELSE pool
        IN  /\ Len(mm.result) = Len(kept)
            /\ \A i \in 1..Len(kept) : Occurs(kept[i], mm.result) = 1

\* three candidates with embeddings came back in another order
C22_Witness ==
    /\ MmrDone /\ mm.k = 3 /\ Len(mm.cands) = 3 /\ Len(Pool(mm.cands)) = 3
    /\ mm.result # mm.cands
    /\ \A i \in 1..3 : Occurs(mm.cands[i], mm.result) = 1

\* C26: the candidate a step selects has the highest MMR score of the
\* remaining ones, and is the first in pool order of those with that score.
C26_StepMaximisesFirstInPoolOrder ==
    mm.last # <<>> =>
        LET l == mm.last[1]
            Sc(c) == MmrScore(c, mm.q_vec, l.selected)
        IN  \A i \in 1..Len(l.remaining) :
               \/ Sc(l.remaining[i]) < Sc(l.chosen)
               \/ Sc(l.remaining[i]) = Sc(l.chosen) /\ l.chosen.pos <= l.remaining[i].pos

\* C25: a step of the ladder that does not return an answer is followed by
\* the next step in the order streaming call, non-streaming call, legacy
\* chat call, alternate chat call, local fallback; in particular a
\* non-streaming call without text is followed by the legacy chat call,
\* whatever the model name.
C25_LadderStepsInOrder ==
    [][/\ (lad.pc = "stream" /\ lad'.pc # "returned") => lad'.pc = "create"
       /\ (lad.pc = "create" /\ lad'.pc # "returned") => lad'.pc = "legacy"
       /\ (lad.pc = "legacy" /\ lad'.pc # "returned") => lad'.pc = "alternate"
       /\ (lad.pc = "alternate" /\ lad'.pc # "returned") => lad'.pc = "local"]_vars

\* where a thread is inside an artifact download, read_index, write_index
\* or a remote upload
IoPcs == {"l_dl", "l_read", "st_write", "st_upload"}

\* C23: no thread holds the index lock while it performs remote-storage or
\* artifact-file I/O, so no search waits for the lock while the thread that
\* holds it is inside reload()'s flush, download or read.
C23_NoIndexLockDuringIO ==
    \A u \in Workers :
       (thr[u].op = "reload" /\ thr[u].pc \in IoPcs) =>
          /\ faiss_lock.owner # u
          /\ \A t \in Workers \ {u} : ~(thr[t].op = "search" /\ thr[t].pc = "s_lock")

\* the checkpoint's thread has been started and has not left _loop
Live(i) == ck[i].tpc \notin {"new", "dead"}
LiveCheckpoints == {i \in Cks : Live(i)}

\* the store is Loaded: a handle is installed and no load, reload or
\* shutdown is under way
Loaded == faiss_index # 0 /\ faiss_lock = FreeLock /\ ~Exiting /\ ~SigActive

\* C24: a store with remote checkpointing has at most one live checkpoint
\* task, and exactly one, the task of the installed handle, while Loaded.
C24_OneLiveCheckpointTask ==
    s3 => /\ Cardinality(LiveCheckpoints) <= 1
          /\ Loaded => LiveCheckpoints = {faiss_checkpoint}

\* C27: a search started after reload() of a loaded store has returned
\* builds its hits from records that are not of an older corpus generation
\* than the handle that ranked them.
C27_RecordsMatchInstalledHandle ==
    \A t \in Workers :
        (SearchDone(t) /\ thr[t].out = "ok" /\ thr[t].want > 0) =>
            records >= handles[thr[t].res]

\* C28: the final flush that reload() runs while it stops the old
\* checkpoint leaves the local index file and the remote object as they
\* were, so that the download and read_index that follow install what was
\* stored there when reload() was called.
C28_ReloadFlushLeavesArtifacts ==
    [][\A t \in Workers :
          (/\ thr[t].op = "reload"
           /\ thr[t].pc \in {"st_lock", "st_write", "st_upload"}
           /\ thr'[t] # thr[t])
          => /\ localFile' = localFile
             /\ remoteObj' = remoteObj]_vars

\* C29: once a stop() that flushed a checkpoint has returned, the thread of
\* that checkpoint is not inside _upload: it writes neither the local index
\* file nor the remote object any more.
C29_NoUploadAfterStopReturned ==
    \A i \in Cks : ck[i].done => ck[i].tpc \notin {"write", "upl"}

\* another caller's stop() has already made the final upload of checkpoint c
FlushedByOther(e, c) ==
    \E f \in Execs \ {e} :
        /\ thr[f].c = c /\ thr[f].fl > 0
        /\ thr[f].pc \in {"st_unreg", "st_unreg2"} /\ thr[f].op # "unwind"

\* C30: however the stop() calls on one checkpoint interleave, the final
\* upload is made by at most one of them, and only a checkpoint that is in
\* the registry is removed from it.
C30_OneFinalFlushPerCheckpoint ==
    [][\A e \in Execs :
          /\ (thr[e].pc = "st_upload" /\ thr'[e].pc = "st_unreg" /\ thr'[e].fl > thr[e].fl)
                => ~(ck[thr[e].c].done \/ FlushedByOther(e, thr[e].c))
          /\ (thr[e].pc = "st_unreg" /\ thr'[e].pc = "st_unreg2" /\ thr[e].fl > 0)
                => InSeq(FAISS_CHECKPOINTS, thr[e].c)]_vars

====
